---- MODULE Spec2Model ----
(***************************************************************************)
(* sdr-rewind: rolling chunked IQ capture (capture_loop), retention        *)
(* enforcement (prune_seconds) and time-window extraction (extract_slice). *)
(*                                                                         *)
(* Time is wall-clock milliseconds.  A capture directory is two maps from  *)
(* file stems to contents: iqFiles for "<stem>.iq" and jsonFiles for       *)
(* "<stem>.json".  A stem is the sequence of character codes of the file   *)
(* name without its last suffix.                                           *)
(*                                                                         *)
(* During a session of the model the wall clock never steps back; only the *)
(* device read and the sleep take time.  A stored directory may hold       *)
(* chunks written while the clock was set back (SpecSkew) and the result   *)
(* of an earlier extract (SpecResult); otherwise outfile lies outside the  *)
(* capture directory.  The device delivers sample k in the k-th read of a  *)
(* session, so the raw data of different chunks differ.  A file being      *)
(* written is seen empty until the write completes.                        *)
(***************************************************************************)
EXTENDS Integers, Sequences, FiniteSets, TLC

VARIABLES
    now,        \* wall clock, milliseconds since the epoch
    iqFiles,    \* outdir: stem -> [bytes, complete] of every *.iq present
    jsonFiles,  \* outdir: stem -> descriptor of every *.json present
    outRaw,     \* <<>> when outfile is absent, else <<bytes of outfile>>
    outDesc,    \* <<>> when outfile.json is absent, else <<its content>>
    cap,        \* the capture_loop process
    pr,         \* the running prune_seconds call
    ex,         \* the extract_slice process
    gh          \* history: snapshots taken when an operation is called

vars == <<now, iqFiles, jsonFiles, outRaw, outDesc, cap, pr, ex, gh>>

---------------------------------------------------------------------------
(* Bounds of the model and constants of the program *)

MaxWrites == 3          \* capture iterations explored in one session
MaxPrunes == 2          \* prune_seconds calls in a row on one stored directory
NSlots == 4             \* chunk slots of a stored directory

MsPerSec == 1000        \* int(t0 * 1000)
ChunkSec == 5           \* --chunk default
StartClock == 20000     \* wall clock when the capture session starts
SlotBase == 10000       \* t0 of the oldest chunk of a stored directory
ToolNow == 40000        \* wall clock when a stored directory is processed
ReadEarlyMs == 100      \* a device read may return this much before nominal
ResultTime == 35000     \* wall clock when an earlier extract wrote its result
ClockStepMs == 6000     \* a backward step of the wall clock (a clock correction)

\* --buffer values (retention seconds) of a capture session, and of prune
\* calls on a stored directory
SessionBuffers == {0, 5, 7}
Buffers == {0 - 5, 0, 5, 7, 12}
\* (--start, --duration) of an extract beside a session, and on a stored
\* directory
SessionWindows == {<<0 - 10, 10>>, <<0, 1>>}
Windows == {<<0 - 22, 9>>, <<0 - 10, 10>>, <<0 - 12, 2>>, <<0, 1>>}
\* capture parameters of successive stored chunks (a retune between chunks)
Freqs == <<100, 200>>
SampRates == <<2400000, 1200000>>
SampRate == 2400000      \* --samp-rate default

---------------------------------------------------------------------------
(* File names *)

RECURSIVE Digits(_)
\* the decimal rendering of a non-negative integer, as character codes
Digits(n) ==
    IF n < 10 THEN <<48 + n>> ELSE Append(Digits(n \div 10), 48 + (n % 10))

JsonSuffix == <<46, 106, 115, 111, 110>>     \* ".json"

\* string comparison by code point
StrLess(a, b) ==
    LET n == IF Len(a) < Len(b) THEN Len(a) ELSE Len(b)
        diff == {i \in 1..n : a[i] # b[i]}
    IN  IF diff = {} THEN Len(a) < Len(b)
        ELSE LET i == CHOOSE j \in diff : \A k \in diff : j <= k
             IN  a[i] < b[i]

\* Path.__lt__ for two descriptor paths of one directory
PathLess(s1, s2) == StrLess(s1 \o JsonSuffix, s2 \o JsonSuffix)

RECURSIVE sorted(_)
\* sorted(outdir.glob("*.json")), as the sequence of their stems
sorted(S) ==
    IF S = {} THEN <<>>
    ELSE LET m == CHOOSE x \in S : \A y \in S \ {x} : PathLess(x, y)
         IN  <<m>> \o sorted(S \ {m})

---------------------------------------------------------------------------
(* Descriptors *)

utcnow_iso(t) == [sec |-> t \div MsPerSec, micro |-> (t % MsPerSec) * 1000]

fromisoformat(s) == s.sec * MsPerSec + (s.micro \div 1000)

ChunkKeys == {"center_freq_hz", "samp_rate_hz", "timestamp_utc", "duration_s", "dtype"}

ChunkMeta(freq, rate, t, dur) ==
    [readable |-> TRUE, keys |-> ChunkKeys, center_freq_hz |-> freq,
     samp_rate_hz |-> rate, timestamp_utc |-> utcnow_iso(t), duration_s |-> dur]

\* a descriptor file that json.loads rejects (empty or cut short)
BadMeta ==
    [readable |-> FALSE, keys |-> {}, center_freq_hz |-> 0,
     samp_rate_hz |-> 0, timestamp_utc |-> utcnow_iso(0), duration_s |-> 0]

RawFile(b, c) == [bytes |-> b, complete |-> c]

---------------------------------------------------------------------------
(* prune_seconds *)

\* variant: the duration taken in milliseconds
MetaDur_Millis(dir, stem) ==
    IF stem \in DOMAIN dir /\ dir[stem].readable /\ "duration_s" \in dir[stem].keys
    THEN dir[stem].duration_s * MsPerSec
    ELSE 0

\* float(meta.get("duration_s", 0)), and 0 when reading or parsing raises
MetaDur(dir, stem) ==
    IF stem \in DOMAIN dir /\ dir[stem].readable /\ "duration_s" \in dir[stem].keys
    THEN dir[stem].duration_s
    ELSE 0

\* variant: the loop ends only once the total exceeds buffer_sec
ReachedBuffer_Strict(total, buffer_sec) == total > buffer_sec

\* the loop's test that ends the accumulation
ReachedBuffer(total, buffer_sec) == total >= buffer_sec

RECURSIVE Accumulate_TestFirst(_, _, _, _, _, _)
\* variant: the total is tested before a chunk is visited
Accumulate_TestFirst(dir, files, i, total, kept, buffer_sec) ==
    IF i = 0 \/ ReachedBuffer(total, buffer_sec) THEN [kept |-> kept, total |-> total]
    ELSE Accumulate_TestFirst(dir, files, i - 1, total + MetaDur(dir, files[i]),
                              Append(kept, files[i]), buffer_sec)

RECURSIVE Accumulate(_, _, _, _, _, _)
\* for meta_path in reversed(files): total += dur; kept.append; break when reached
Accumulate(dir, files, i, total, kept, buffer_sec) ==
    IF i = 0 THEN [kept |-> kept, total |-> total]
    ELSE LET t == total + MetaDur(dir, files[i])
             k == Append(kept, files[i])
         IN  IF ReachedBuffer(t, buffer_sec) THEN [kept |-> k, total |-> t]
             ELSE Accumulate(dir, files, i - 1, t, k, buffer_sec)

\* variant: the last chunk visited is left out of keep_set
KeepSet_DropLast(kept) == {kept[i] : i \in 1..(Len(kept) - 1)}

\* keep_set = {p.stem for p in kept}
KeepSet(kept) == {kept[i] : i \in 1..Len(kept)}

\* variant: the raw data is unlinked before the descriptor
UnlinkPair_IqFirst(stem) == <<<<stem, "iq">>, <<stem, "json">>>>

\* for p in (meta_path, iq_path): the two paths unlinked for one stem, in order
UnlinkPair(stem) == <<<<stem, "json">>, <<stem, "iq">>>>

RECURSIVE Doomed(_, _, _)
\* the paths the deletion loop unlinks, in the order it unlinks them
Doomed(files, i, keep_set) ==
    IF i > Len(files) THEN <<>>
    ELSE (IF files[i] \in keep_set THEN <<>> ELSE UnlinkPair(files[i]))
         \o Doomed(files, i + 1, keep_set)

PruneIdle ==
    [pc |-> "idle", buffer_sec |-> 0, files |-> <<>>, kept |-> <<>>,
     total |-> 0, todo |-> <<>>]

\* the value of a stage of a call, computed once
The(S) == CHOOSE x \in S : TRUE

\* the glob, the sort and the accumulation loop of one call: files, then
\* kept and total, then the paths the deletion loop will unlink
prune_scan(buffer_sec) ==
    The({The({The({
        [pc |-> IF todo = <<>> THEN "done" ELSE "unlink",
         buffer_sec |-> buffer_sec, files |-> files, kept |-> acc.kept,
         total |-> acc.total, todo |-> todo]
        : todo \in {Doomed(files, 1, KeepSet(acc.kept))}})
        : acc \in {Accumulate(jsonFiles, files, Len(files), 0, <<>>, buffer_sec)}})
        : files \in {sorted(DOMAIN jsonFiles)}})

Remove(f, stem) == [s \in (DOMAIN f) \ {stem} |-> f[s]]

\* variant: a path that is already gone ends the run
UnlinkMissing_Raise == "raise"

\* except FileNotFoundError: pass
UnlinkMissing == "pass"

\* one p.unlink(); FileNotFoundError is swallowed
PruneUnlink ==
    /\ pr.pc = "unlink"
    /\ LET path == Head(pr.todo)
           rest == Tail(pr.todo)
           there == IF path[2] = "json" THEN path[1] \in DOMAIN jsonFiles
                    ELSE path[1] \in DOMAIN iqFiles
       IN  /\ jsonFiles' = IF path[2] = "json" THEN Remove(jsonFiles, path[1])
                           ELSE jsonFiles
           /\ iqFiles' = IF path[2] = "iq" THEN Remove(iqFiles, path[1])
                         ELSE iqFiles
           /\ pr' = [pr EXCEPT !.todo = rest,
                               !.pc = IF ~there /\ UnlinkMissing = "raise" THEN "raised"
                                      ELSE IF rest = <<>> THEN "done" ELSE "unlink"]
           /\ gh' = [gh EXCEPT !.pruned = IF there THEN @ \cup {path} ELSE @]
    /\ UNCHANGED <<now, outRaw, outDesc, cap, ex>>

---------------------------------------------------------------------------
(* extract_slice *)

\* variant: the chunk's end is not compared with the window's start
Overlaps_StartOnly(t, t_end, start_time, end_time) == t <= end_time

\* variant: the overlap test with strict comparisons
Overlaps_Strict(t, t_end, start_time, end_time) == t < end_time /\ t_end > start_time

\* if t <= end_time and t_end >= start_time
Overlaps(t, t_end, start_time, end_time) == t <= end_time /\ t_end >= start_time

\* what the try block makes of one descriptor: <<>> on any exception,
\* else <<(t, dur, meta_path)>>
ReadMeta(dir, stem) ==
    IF /\ stem \in DOMAIN dir
       /\ dir[stem].readable
       /\ "timestamp_utc" \in dir[stem].keys
    THEN <<<<fromisoformat(dir[stem].timestamp_utc), MetaDur(dir, stem), stem>>>>
    ELSE <<>>

RECURSIVE InsertMeta(_, _)
\* where a stable sort on x[0] puts m among elements that came before it
InsertMeta(ms, m) ==
    IF ms = <<>> THEN <<m>>
    ELSE IF m[1] < Head(ms)[1] THEN <<m>> \o ms
    ELSE <<Head(ms)>> \o InsertMeta(Tail(ms), m)

\* variant: metas left in enumeration order
SortMetas_Unsorted(ms) == ms

RECURSIVE SortMetas(_)
\* metas.sort(key=lambda x: x[0])
SortMetas(ms) ==
    IF ms = <<>> THEN <<>>
    ELSE InsertMeta(SortMetas(SubSeq(ms, 1, Len(ms) - 1)), ms[Len(ms)])

\* the descriptor of the output: parameters of metas[0], the requested window
Combined(first_meta, start_rel_s, duration_s, t) ==
    [center_freq_hz |-> first_meta.center_freq_hz,
     samp_rate_hz |-> first_meta.samp_rate_hz,
     timestamp_utc |-> utcnow_iso(t),
     requested_window |-> [start_rel_s |-> start_rel_s, duration_s |-> duration_s]]

ExtractIdle ==
    [pc |-> "idle", start_rel_s |-> 0, duration_s |-> 0, start_time |-> 0,
     end_time |-> 0, listing |-> {}, metas |-> <<>>, k |-> 0, missing |-> <<>>]

ExtractEnded == ex.pc \in {"done", "exit1", "raised"}

\* now, start_time, end_time and the glob of one call
extract_begin(start_rel_s, duration_s, listing) ==
    LET start_time == now + start_rel_s * MsPerSec
    IN  [pc |-> "scan", start_rel_s |-> start_rel_s, duration_s |-> duration_s,
         start_time |-> start_time,
         end_time |-> start_time + duration_s * MsPerSec,
         listing |-> listing, metas |-> <<>>, k |-> 0, missing |-> <<>>]

SnapshotForExtract(g) ==
    [g EXCEPT !.exJson = jsonFiles, !.exIq = iqFiles, !.exOutRaw = outRaw,
              !.exOutDesc = outDesc, !.pruned = {}]

\* what one iteration of the descriptor loop appends to metas
Selected(dir, stem, start_time, end_time) ==
    LET m == ReadMeta(dir, stem)
    IN  IF m # <<>> /\ Overlaps(m[1][1], m[1][1] + m[1][2] * MsPerSec,
                                start_time, end_time)
        THEN m ELSE <<>>

\* one iteration of the descriptor loop: the glob yields the entries it
\* listed at the call in an order of the file system's choosing
ExtractReadMeta ==
    /\ ex.pc = "scan"
    /\ \E stem \in ex.listing :
          ex' = [ex EXCEPT
                 !.metas = @ \o Selected(jsonFiles, stem, ex.start_time, ex.end_time),
                 !.listing = @ \ {stem}]
    /\ UNCHANGED <<now, iqFiles, jsonFiles, outRaw, outDesc, cap, pr, gh>>

\* variant: no test for an empty selection
AfterSort_NoCheck(metas) == "open"

\* if not metas: sys.exit(1)
AfterSort(metas) == IF metas = <<>> THEN "exit1" ELSE "open"

\* metas.sort; sys.exit(1) when nothing was selected
ExtractSort ==
    /\ ex.pc = "scan"
    /\ ex.listing = {}
    /\ ex' = [ex EXCEPT !.metas = SortMetas(@), !.pc = AfterSort(ex.metas)]
    /\ gh' = [gh EXCEPT !.shuffled =
                 \E i, j \in 1..Len(ex.metas) : i < j /\ ex.metas[j][1] < ex.metas[i][1]]
    /\ UNCHANGED <<now, iqFiles, jsonFiles, outRaw, outDesc, cap, pr>>

\* open(outfile, "wb")
ExtractOpen ==
    /\ ex.pc = "open"
    /\ outRaw' = <<<<>>>>
    /\ ex' = [ex EXCEPT !.pc = "copy", !.k = 1]
    /\ UNCHANGED <<now, iqFiles, jsonFiles, outDesc, cap, pr, gh>>

\* fo.write(iq_path.read_bytes()) for one selected chunk
ExtractCopy ==
    /\ ex.pc = "copy"
    /\ ex.k <= Len(ex.metas)
    /\ LET stem == ex.metas[ex.k][3]
       IN  IF stem \in DOMAIN iqFiles
           THEN /\ outRaw' = <<outRaw[1] \o iqFiles[stem].bytes>>
                /\ ex' = [ex EXCEPT !.k = @ + 1]
           ELSE /\ ex' = [ex EXCEPT !.pc = "raised", !.missing = <<stem, "iq">>]
                /\ UNCHANGED outRaw
    /\ UNCHANGED <<now, iqFiles, jsonFiles, outDesc, cap, pr, gh>>

\* variant: the parameters taken from the latest selected chunk
FirstMeta_Last(metas) == metas[Len(metas)][3]

\* metas[0][2], the descriptor whose parameters the output carries
FirstMeta(metas) == metas[1][3]

\* first_meta = json.loads(metas[0][2].read_text()); write_json(outfile.json)
ExtractWriteMeta ==
    /\ ex.pc = "copy"
    /\ ex.k > Len(ex.metas)
    /\ LET stem == IF ex.metas = <<>> THEN <<>> ELSE FirstMeta(ex.metas)
       IN  IF /\ ex.metas # <<>>
              /\ stem \in DOMAIN jsonFiles
              /\ jsonFiles[stem].readable
              /\ {"center_freq_hz", "samp_rate_hz"} \subseteq jsonFiles[stem].keys
           THEN /\ outDesc' = <<Combined(jsonFiles[stem], ex.start_rel_s,
                                         ex.duration_s, now)>>
                /\ ex' = [ex EXCEPT !.pc = "done"]
           ELSE /\ ex' = [ex EXCEPT !.pc = "raised", !.missing = <<stem, "json">>]
                /\ UNCHANGED outDesc
    /\ UNCHANGED <<now, iqFiles, jsonFiles, outRaw, cap, pr, gh>>

\* an extract command issued while a capture session owns the directory
ExtractCall ==
    /\ cap.pc \notin {"none", "start"}
    /\ ex.pc = "idle"
    /\ \E w \in SessionWindows : ex' = extract_begin(w[1], w[2], DOMAIN jsonFiles)
    /\ gh' = SnapshotForExtract(gh)
    /\ UNCHANGED <<now, iqFiles, jsonFiles, outRaw, outDesc, cap, pr>>

---------------------------------------------------------------------------
(* capture_loop *)

NoCapture ==
    [pc |-> "none", running |-> FALSE, sdr |-> "none", freq_hz |-> 0,
     samp_rate |-> 0, buffer_sec |-> 0, chunk_sec |-> 0, t0 |-> 0, iq |-> <<>>,
     ts |-> 0, meta |-> BadMeta, writes |-> 0, closes |-> 0, failed |-> "none"]

\* the stem of iq_path = outdir / f"{ts}.iq"
ChunkStem(ts) == Digits(ts)

\* how long sdr.read_samples may block for a chunk of chunk_sec seconds
ReadDelays(chunk_sec) == {chunk_sec * MsPerSec - ReadEarlyMs, chunk_sec * MsPerSec}

\* RtlSdr(), its configuration, the signal handlers, ensure_dir
CaptureConfig ==
    /\ cap.pc = "start"
    /\ cap' = [cap EXCEPT !.pc = "loop", !.sdr = "open", !.running = TRUE]
    /\ UNCHANGED <<now, iqFiles, jsonFiles, outRaw, outDesc, pr, ex, gh>>

\* SIGINT or SIGTERM delivered while the handlers are installed
handle_sig ==
    /\ cap.pc \notin {"none", "start", "closed"}
    /\ cap.running
    /\ cap' = [cap EXCEPT !.running = FALSE]
    /\ UNCHANGED <<now, iqFiles, jsonFiles, outRaw, outDesc, pr, ex, gh>>

\* variant: the loop never tests the flag the signal handler clears
WhileTest_Always(running) == TRUE

\* the test of "while running:"
WhileTest(running) == running

\* while running: t0 = time.time()
CaptureLoop ==
    /\ cap.pc = "loop"
    /\ WhileTest(cap.running) => cap.writes < MaxWrites
    /\ cap' = IF WhileTest(cap.running) THEN [cap EXCEPT !.pc = "read", !.t0 = now]
              ELSE [cap EXCEPT !.pc = "finally"]
    /\ UNCHANGED <<now, iqFiles, jsonFiles, outRaw, outDesc, pr, ex, gh>>

\* iq = sdr.read_samples(...); ts = int(t0 * 1000); meta = {...}
CaptureRead ==
    /\ cap.pc = "read"
    /\ \E delay \in ReadDelays(cap.chunk_sec) :
          /\ now' = now + delay
          /\ cap' = [cap EXCEPT
                 !.pc = "tofile",
                 !.iq = <<cap.writes + 1>>,
                 !.ts = cap.t0,
                 !.meta = ChunkMeta(cap.freq_hz, cap.samp_rate, now + delay,
                                    cap.chunk_sec)]
    /\ UNCHANGED <<iqFiles, jsonFiles, outRaw, outDesc, pr, ex, gh>>

Put(f, stem, v) == [s \in (DOMAIN f) \cup {stem} |-> IF s = stem THEN v ELSE f[s]]

\* iq.tofile(iq_path): the file is created empty, then filled and closed
CaptureToFile ==
    /\ cap.pc \in {"tofile", "tofile2"}
    /\ iqFiles' = Put(iqFiles, ChunkStem(cap.ts),
                      IF cap.pc = "tofile" THEN RawFile(<<>>, FALSE)
                      ELSE RawFile(cap.iq, TRUE))
    /\ cap' = [cap EXCEPT !.pc = IF cap.pc = "tofile" THEN "tofile2" ELSE "json"]
    /\ UNCHANGED <<now, jsonFiles, outRaw, outDesc, pr, ex, gh>>

\* write_json(iq_path.with_suffix('.json'), meta): created empty, then filled
CaptureWriteJson ==
    /\ cap.pc \in {"json", "json2"}
    /\ jsonFiles' = Put(jsonFiles, ChunkStem(cap.ts),
                        IF cap.pc = "json" THEN BadMeta ELSE cap.meta)
    /\ cap' = [cap EXCEPT !.pc = IF cap.pc = "json" THEN "json2" ELSE "prune"]
    /\ gh' = [gh EXCEPT !.written = IF cap.pc = "json" THEN @
                                    ELSE Append(@, ChunkStem(cap.ts))]
    /\ UNCHANGED <<now, iqFiles, outRaw, outDesc, pr, ex>>

SnapshotForPrune(g, chain, buffer_sec) ==
    [g EXCEPT !.beforeJson = jsonFiles, !.beforeIq = iqFiles, !.chain = chain,
              !.lastR = buffer_sec, !.lastOp = "prune",
              !.prevRemoved = /\ g.lastOp = "prune"
                              /\ (g.beforeJson # jsonFiles \/ g.beforeIq # iqFiles)]

\* prune_seconds(outdir, buffer_sec), up to its deletion loop
CapturePrune ==
    /\ cap.pc = "prune"
    /\ pr.pc = "idle"
    /\ pr' = prune_scan(cap.buffer_sec)
    /\ cap' = [cap EXCEPT !.pc = "pruning"]
    /\ gh' = SnapshotForPrune(gh, 1, cap.buffer_sec)
    /\ UNCHANGED <<now, iqFiles, jsonFiles, outRaw, outDesc, ex>>

\* elapsed = time.time() - t0; time.sleep(sleep_left) when positive
CaptureSleep ==
    /\ cap.pc = "pruning"
    /\ pr.pc = "done"
    /\ LET elapsed == now - cap.t0
           sleep_left == cap.chunk_sec * MsPerSec - elapsed
       IN  now' = IF sleep_left > 0 THEN now + sleep_left ELSE now
    /\ cap' = [cap EXCEPT !.pc = "loop", !.writes = @ + 1]
    /\ pr' = PruneIdle
    /\ UNCHANGED <<iqFiles, jsonFiles, outRaw, outDesc, ex, gh>>

\* finally: sdr.close()
CaptureClose ==
    /\ cap.pc = "finally"
    /\ cap' = [cap EXCEPT !.pc = "closed", !.sdr = "closed", !.closes = @ + 1]
    /\ UNCHANGED <<now, iqFiles, jsonFiles, outRaw, outDesc, pr, ex, gh>>

---------------------------------------------------------------------------
(* One capture session on an empty directory, with an extract beside it *)

NoFiles == [s \in {} |-> 0]

NoHistory ==
    [prunes |-> 0, lastOp |-> "none", lastR |-> 0, chain |-> 0,
     beforeJson |-> NoFiles, beforeIq |-> NoFiles, exJson |-> NoFiles,
     exIq |-> NoFiles, exOutRaw |-> <<>>, exOutDesc |-> <<>>, pruned |-> {},
     prevRemoved |-> FALSE, shuffled |-> FALSE, written |-> <<>>]

Init ==
    /\ now = StartClock
    /\ iqFiles = NoFiles
    /\ jsonFiles = NoFiles
    /\ outRaw = <<>>
    /\ outDesc = <<>>
    /\ \E b \in SessionBuffers :
          cap = [NoCapture EXCEPT !.pc = "start", !.freq_hz = Freqs[1],
                                  !.samp_rate = SampRate, !.buffer_sec = b,
                                  !.chunk_sec = ChunkSec]
    /\ pr = PruneIdle
    /\ ex = ExtractIdle
    /\ gh = NoHistory

Next ==
    \/ CaptureConfig
    \/ handle_sig
    \/ CaptureLoop
    \/ CaptureRead
    \/ CaptureToFile
    \/ CaptureWriteJson
    \/ CapturePrune
    \/ PruneUnlink
    \/ CaptureSleep
    \/ CaptureClose
    \/ ExtractCall
    \/ ExtractReadMeta
    \/ ExtractSort
    \/ ExtractOpen
    \/ ExtractCopy
    \/ ExtractWriteMeta

Spec == Init /\ [][Next]_vars

---------------------------------------------------------------------------
(* The capture session alone.  capture_loop is one sequential program that *)
(* keeps running: whichever of its steps is enabled is eventually taken.   *)
(* A signal is the environment's choice.                                   *)

CaptureStep ==
    \/ CaptureConfig
    \/ CaptureLoop
    \/ CaptureRead
    \/ CaptureToFile
    \/ CaptureWriteJson
    \/ CapturePrune
    \/ PruneUnlink
    \/ CaptureSleep
    \/ CaptureClose

NextSession == CaptureStep \/ handle_sig

SpecLive == Init /\ [][NextSession]_vars /\ WF_vars(CaptureStep)

---------------------------------------------------------------------------
(* prune_seconds and extract_slice called on a stored directory: the       *)
(* directory is an input, left by earlier sessions, crashes and its user   *)

\* slot i holds what one capture iteration starting at SlotT0(i) wrote
SlotT0(i) == SlotBase + (i - 1) * ChunkSec * MsPerSec

SlotStem(i) == ChunkStem(SlotT0(i))

SlotMeta(i) ==
    ChunkMeta(Freqs[((i - 1) % 2) + 1], SampRates[((i - 1) % 2) + 1],
              SlotT0(i) + ChunkSec * MsPerSec, ChunkSec)

SlotRaw(i) == RawFile(<<i>>, TRUE)

\* a slot holds nothing, both artifacts, one of the two, or the raw data
\* beside a descriptor that does not parse
Kinds == {"absent", "full", "descOnly", "rawOnly", "bad"}

\* slot i as written by an iteration during whose device read the wall
\* clock was set back by ClockStepMs: named by t0, stamped after the read
SteppedMeta(i) ==
    [SlotMeta(i) EXCEPT
        !.timestamp_utc = utcnow_iso(SlotT0(i) + ChunkSec * MsPerSec - ClockStepMs)]

StoredJson(kind) ==
    LET slots == {i \in 1..NSlots : kind[i] \in {"full", "descOnly", "bad", "stepped"}}
        slotOf(s) == CHOOSE i \in slots : SlotStem(i) = s
    IN  [s \in {SlotStem(i) : i \in slots} |->
            IF kind[slotOf(s)] = "bad" THEN BadMeta
            ELSE IF kind[slotOf(s)] = "stepped" THEN SteppedMeta(slotOf(s))
            ELSE SlotMeta(slotOf(s))]

StoredIq(kind) ==
    LET slots == {i \in 1..NSlots : kind[i] \in {"full", "rawOnly", "bad", "stepped"}}
        slotOf(s) == CHOOSE i \in slots : SlotStem(i) = s
    IN  [s \in {SlotStem(i) : i \in slots} |-> SlotRaw(slotOf(s))]

InitTool ==
    /\ now = ToolNow
    /\ \E kind \in [1..NSlots -> Kinds] :
          /\ jsonFiles = StoredJson(kind)
          /\ iqFiles = StoredIq(kind)
    /\ outRaw = <<>>
    /\ outDesc = <<>>
    /\ cap = NoCapture
    /\ pr = PruneIdle
    /\ ex = ExtractIdle
    /\ gh = NoHistory

\* prune_seconds(outdir, buffer_sec) called on the stored directory, any
\* number of times in a row
ToolPrune ==
    /\ cap.pc = "none"
    /\ pr.pc \in {"idle", "done"}
    /\ ex.pc = "idle"
    /\ gh.prunes < MaxPrunes
    /\ \E b \in Buffers :
          /\ pr' = prune_scan(b)
          /\ gh' = [SnapshotForPrune(gh,
                        IF gh.lastOp = "prune" /\ gh.lastR = b
                        THEN gh.chain + 1 ELSE 1, b)
                    EXCEPT !.prunes = @ + 1]
    /\ UNCHANGED <<now, iqFiles, jsonFiles, outRaw, outDesc, cap, ex>>

\* the extract command run on the stored directory
ToolExtract ==
    /\ cap.pc = "none"
    /\ pr.pc \in {"idle", "done"}
    /\ ex.pc = "idle"
    /\ \E w \in Windows : ex' = extract_begin(w[1], w[2], DOMAIN jsonFiles)
    /\ pr' = PruneIdle
    /\ gh' = SnapshotForExtract(NoHistory)
    /\ UNCHANGED <<now, iqFiles, jsonFiles, outRaw, outDesc, cap>>

NextTool ==
    \/ ToolPrune
    \/ PruneUnlink
    \/ ToolExtract
    \/ ExtractReadMeta
    \/ ExtractSort
    \/ ExtractOpen
    \/ ExtractCopy
    \/ ExtractWriteMeta

SpecTool == InitTool /\ [][NextTool]_vars

\* a stored directory of complete chunks, some of them written while the
\* wall clock was set back
SkewKinds == {"absent", "full", "stepped"}

InitSkew ==
    /\ now = ToolNow
    /\ \E kind \in [1..NSlots -> SkewKinds] :
          /\ jsonFiles = StoredJson(kind)
          /\ iqFiles = StoredIq(kind)
    /\ outRaw = <<>>
    /\ outDesc = <<>>
    /\ cap = NoCapture
    /\ pr = PruneIdle
    /\ ex = ExtractIdle
    /\ gh = NoHistory

SpecSkew == InitSkew /\ [][NextTool]_vars

\* a stored directory into which an earlier extract wrote its result:
\* --outfile <outdir>/slice.iq, hence slice.iq and slice.iq.json
OutStem == <<115, 108, 105, 99, 101>>               \* "slice"
ResultStem == OutStem \o <<46, 105, 113>>           \* "slice.iq"

\* slice.iq.json as a later json.loads sees it: no duration_s
ResultMeta(first_meta, t) ==
    [readable |-> TRUE,
     keys |-> {"center_freq_hz", "samp_rate_hz", "timestamp_utc", "requested_window"},
     center_freq_hz |-> first_meta.center_freq_hz,
     samp_rate_hz |-> first_meta.samp_rate_hz,
     timestamp_utc |-> utcnow_iso(t), duration_s |-> 0]

ResultKinds == {"absent", "full"}

InitResult ==
    /\ now = ToolNow
    /\ \E kind \in [1..NSlots -> ResultKinds] :
          /\ jsonFiles = Put(StoredJson(kind), ResultStem,
                             ResultMeta(SlotMeta(1), ResultTime))
          /\ iqFiles = Put(StoredIq(kind), OutStem, SlotRaw(1))
    /\ outRaw = <<>>
    /\ outDesc = <<>>
    /\ cap = NoCapture
    /\ pr = PruneIdle
    /\ ex = ExtractIdle
    /\ gh = NoHistory

SpecResult == InitResult /\ [][NextTool]_vars

---------------------------------------------------------------------------
(* Properties *)

\* the duration_s a descriptor record carries, 0 when it carries none
DurationOf(m) == IF m.readable /\ "duration_s" \in m.keys THEN m.duration_s ELSE 0

\* the start instant a descriptor record carries, in milliseconds
StartOf(m) == m.timestamp_utc.sec * MsPerSec + m.timestamp_utc.micro \div 1000

RECURSIVE SumDur(_, _)
SumDur(dir, S) ==
    IF S = {} THEN 0
    ELSE LET s == CHOOSE x \in S : TRUE
         IN  DurationOf(dir[s]) + SumDur(dir, S \ {s})

\* the sum of duration_s over the descriptors of a directory
TotalDuration(dir) == SumDur(dir, DOMAIN dir)

\* every descriptor of the directory is readable and carries duration d
SameDuration(dir, d) ==
    \A s \in DOMAIN dir :
        dir[s].readable /\ "duration_s" \in dir[s].keys /\ dir[s].duration_s = d

PruneCompleted == pr.pc = "done"

\* the retention bound of a completed run, for chunks of one duration d
RetentionBound(d) ==
    LET before == TotalDuration(gh.beforeJson)
        after == TotalDuration(jsonFiles)
    IN  /\ before >= pr.buffer_sec => after >= pr.buffer_sec
        /\ after < pr.buffer_sec + d

---------------------------------------------------------------------------

\* the window the request resolves to
WindowStart == now + ex.start_rel_s * MsPerSec
WindowEnd == WindowStart + ex.duration_s * MsPerSec

\* the stored chunks whose readable descriptor meets the overlap test
ExpectedSelection ==
    {s \in DOMAIN gh.exJson :
        LET m == gh.exJson[s]
        IN  /\ m.readable
            /\ "timestamp_utc" \in m.keys
            /\ StartOf(m) <= WindowEnd
            /\ StartOf(m) + DurationOf(m) * MsPerSec >= WindowStart}

SelectionMade == ex.pc \in {"open", "copy", "done", "raised", "exit1"}

SelectedStems == {ex.metas[i][3] : i \in 1..Len(ex.metas)}

SelectedStarts == {ex.metas[i][1] : i \in 1..Len(ex.metas)}

\* the instant the example's chunk "0" starts at
ExampleEpoch == SlotBase + ChunkSec * MsPerSec

\* chunks starting at 0, 5, 10, 15 s with duration 5 each, window [3, 12)
ExampleCase ==
    /\ {StartOf(gh.exJson[s]) : s \in DOMAIN gh.exJson}
         = {ExampleEpoch + k * MsPerSec : k \in {0, 5, 10, 15}}
    /\ SameDuration(gh.exJson, 5)
    /\ WindowStart = ExampleEpoch + 3 * MsPerSec
    /\ WindowEnd = ExampleEpoch + 12 * MsPerSec

\* C2: extract_slice selects exactly the chunks whose readable descriptor has
\* chunk_start <= window_end and chunk_start + duration >= window_start; in
\* the example of chunks at 0, 5, 10, 15 and window [3, 12) these are the
\* chunks at 0, 5 and 10.
C2_OverlapSelection ==
    SelectionMade =>
        /\ SelectedStems = ExpectedSelection
        /\ ExampleCase =>
              SelectedStarts = {ExampleEpoch + k * MsPerSec : k \in {0, 5, 10}}

C2_Witness == ExampleCase /\ ex.pc = "done" /\ Len(ex.metas) = 3

RECURSIVE ConcatAscending(_)
\* the raw data of a set of stored chunks, joined by ascending start time
ConcatAscending(S) ==
    IF S = {} THEN <<>>
    ELSE LET e == CHOOSE x \in S :
                      \A y \in S : StartOf(gh.exJson[x]) <= StartOf(gh.exJson[y])
         IN  gh.exIq[e].bytes \o ConcatAscending(S \ {e})

\* C3: when extract_slice succeeds, the output is the concatenation of the
\* selected chunks' raw data in ascending descriptor start time, whatever
\* order the directory was enumerated in.
C3_Ordering == ex.pc = "done" => outRaw = <<ConcatAscending(ExpectedSelection)>>

\* a success on three chunks that the directory enumerated out of order
C3_Witness == ex.pc = "done" /\ Len(ex.metas) >= 3 /\ gh.shuffled

\* C4: when no stored chunk overlaps the window, extract_slice ends in
\* failure and creates neither the output nor its descriptor.
C4_EmptyWindow ==
    (ex.pc \notin {"idle", "scan"} /\ ExpectedSelection = {})
        => (ex.pc = "exit1" /\ outRaw = <<>> /\ outDesc = <<>>)

\* a failed extraction on a directory that holds readable chunks
C4_Witness ==
    /\ ex.pc = "exit1"
    /\ \E s \in DOMAIN gh.exJson : gh.exJson[s].readable /\ s \in DOMAIN gh.exIq

\* the earliest chunk of the expected selection
Earliest(S) ==
    CHOOSE x \in S : \A y \in S : StartOf(gh.exJson[x]) <= StartOf(gh.exJson[y])

\* C5: the output descriptor carries center_freq_hz and samp_rate_hz of the
\* earliest selected chunk and the requested relative start and duration.
C5_PassThrough ==
    ex.pc = "done" =>
        LET first == gh.exJson[Earliest(ExpectedSelection)]
            d == outDesc[1]
        IN  /\ d.center_freq_hz = first.center_freq_hz
            /\ d.samp_rate_hz = first.samp_rate_hz
            /\ <<d.requested_window.start_rel_s, d.requested_window.duration_s>>
                 = <<ex.start_rel_s, ex.duration_s>>
            /\ <<ex.start_rel_s, ex.duration_s>> \in Windows
            /\ d.requested_window.start_rel_s * MsPerSec # WindowStart

\* a success where a later selected chunk was captured at another frequency
C5_Witness ==
    /\ ex.pc = "done"
    /\ \E s \in ExpectedSelection :
          /\ gh.exJson[s].center_freq_hz # outDesc[1].center_freq_hz
          /\ gh.exJson[s].samp_rate_hz # outDesc[1].samp_rate_hz

---------------------------------------------------------------------------

\* the stems of which the directory holds both artifacts
Paired(json, iq) == (DOMAIN json) \cap (DOMAIN iq)

\* C6: a chunk of which only one artifact is present adds nothing to the
\* duration prune_seconds accumulates, is never selected by extract_slice,
\* and makes neither of them raise.
C6_PairTolerance ==
    /\ pr.pc \in {"unlink", "done"} =>
          pr.total = SumDur(gh.beforeJson,
                            KeepSet(pr.kept) \cap Paired(gh.beforeJson, gh.beforeIq))
    /\ SelectionMade => SelectedStems \subseteq Paired(gh.exJson, gh.exIq)
    /\ ex.pc # "raised"

\* C7: a chunk deleted by a concurrent prune_seconds after the extractor
\* selected it and before the extractor reads its raw data is skipped, and
\* the extraction completes without it.
C7_SkipDeleted ==
    (ex.pc = "raised" /\ ex.missing[2] = "iq") => ex.missing \notin gh.pruned

---------------------------------------------------------------------------

DirectoryUnchanged == jsonFiles = gh.beforeJson /\ iqFiles = gh.beforeIq

\* C8: a prune_seconds run that directly follows a run with the same
\* retention deletes nothing, whatever the directory holds.
C8_Idempotent == (PruneCompleted /\ gh.chain >= 2) => DirectoryUnchanged

\* a second run after a first that deleted something; an unreadable
\* descriptor is among the survivors
C8_Witness ==
    /\ PruneCompleted /\ gh.chain >= 2 /\ gh.prevRemoved
    /\ \E s \in DOMAIN jsonFiles : ~jsonFiles[s].readable

\* C9: when the durations in the directory sum to less than retention_s,
\* prune_seconds leaves the directory as it found it.
C9_ShortHistory ==
    (PruneCompleted /\ TotalDuration(gh.beforeJson) < pr.buffer_sec)
        => DirectoryUnchanged

\* a run on two or more descriptors whose durations fall short
C9_Witness ==
    /\ PruneCompleted
    /\ Cardinality(DOMAIN gh.beforeJson) >= 2
    /\ TotalDuration(gh.beforeJson) > 0
    /\ TotalDuration(gh.beforeJson) < pr.buffer_sec

\* C10: while a capture session, its prune and an extract interleave, a
\* descriptor present in the directory has its raw data present and complete.
C10_DescriptorImpliesData ==
    \A s \in DOMAIN jsonFiles : s \in DOMAIN iqFiles /\ iqFiles[s].complete

\* a prune between the two deletions of a chunk, with other descriptors
\* left, while the extract reads raw data
C10_Witness ==
    /\ pr.pc = "unlink" /\ Head(pr.todo)[2] = "iq"
    /\ DOMAIN jsonFiles # {}
    /\ ex.pc = "copy"

---------------------------------------------------------------------------
(* A capture session started later on a stored directory *)

\* --buffer values of a session on a stored directory
ResumeBuffers == {0 - 5, 0, 7}

\* what the slots of the stored directory hold
ResumeKinds == {"absent", "full", "descOnly", "bad"}

InitResume ==
    /\ now = ToolNow
    /\ \E kind \in [1..NSlots -> ResumeKinds] :
          /\ jsonFiles = StoredJson(kind)
          /\ iqFiles = StoredIq(kind)
    /\ outRaw = <<>>
    /\ outDesc = <<>>
    /\ \E b \in ResumeBuffers :
          cap = [NoCapture EXCEPT !.pc = "start", !.freq_hz = Freqs[1],
                                  !.samp_rate = SampRate, !.buffer_sec = b,
                                  !.chunk_sec = ChunkSec]
    /\ pr = PruneIdle
    /\ ex = ExtractIdle
    /\ gh = NoHistory

SpecResume == InitResume /\ [][NextSession]_vars

---------------------------------------------------------------------------
(* The capture session with the failures of its device and file operations *)

\* RtlSdr() raises: no handle was obtained
CaptureOpenFails ==
    /\ cap.pc = "start"
    /\ cap' = [cap EXCEPT !.pc = "raised", !.failed = "open"]
    /\ UNCHANGED <<now, iqFiles, jsonFiles, outRaw, outDesc, pr, ex, gh>>

\* RtlSdr() returned a handle; one of the lines before the try statement
\* raises: a device setter, SIGINT before the handlers are installed
\* (KeyboardInterrupt), or ensure_dir
CaptureSetupFails ==
    /\ cap.pc = "start"
    /\ \E why \in {"config", "signal", "mkdir"} :
          cap' = [cap EXCEPT !.pc = "raised", !.sdr = "open", !.failed = why]
    /\ UNCHANGED <<now, iqFiles, jsonFiles, outRaw, outDesc, pr, ex, gh>>

\* sdr.read_samples raises inside the try statement
CaptureReadFails ==
    /\ cap.pc = "read"
    /\ cap' = [cap EXCEPT !.pc = "finally", !.failed = "read"]
    /\ UNCHANGED <<now, iqFiles, jsonFiles, outRaw, outDesc, pr, ex, gh>>

\* iq.tofile or write_json raises, before or after creating the file
CaptureWriteFails ==
    /\ cap.pc \in {"tofile", "tofile2", "json", "json2"}
    /\ cap' = [cap EXCEPT !.pc = "finally", !.failed = "write"]
    /\ UNCHANGED <<now, iqFiles, jsonFiles, outRaw, outDesc, pr, ex, gh>>

NextFail ==
    \/ NextSession
    \/ CaptureOpenFails
    \/ CaptureSetupFails
    \/ CaptureReadFails
    \/ CaptureWriteFails

SpecFail == Init /\ [][NextFail]_vars

---------------------------------------------------------------------------

\* the four states of a capture session
Phase(c) ==
    IF c.pc = "start" THEN "INITIALIZING"
    ELSE IF c.pc = "closed" THEN "CLOSED"
    ELSE IF c.running THEN "RUNNING" ELSE "STOPPING"

PhaseEdges ==
    {<<"INITIALIZING", "RUNNING">>, <<"RUNNING", "STOPPING">>,
     <<"STOPPING", "CLOSED">>}

Stopping == Phase(cap) = "STOPPING"

\* both artifacts of the current iteration's chunk are in the directory
CurrentChunkWritten ==
    LET s == ChunkStem(cap.ts)
    IN  /\ s \in DOMAIN iqFiles /\ iqFiles[s] = RawFile(cap.iq, TRUE)
        /\ s \in DOMAIN jsonFiles /\ jsonFiles[s] = cap.meta

\* C11: the session moves only INITIALIZING -> RUNNING -> STOPPING ->
\* CLOSED.  After a signal the read in progress returns its samples, both
\* artifacts of the current chunk get written, no further read is started,
\* the device is released, the loop ends, and nothing follows CLOSED.
C11_CooperativeShutdown ==
    /\ [][Phase(cap') = Phase(cap) \/ <<Phase(cap), Phase(cap')>> \in PhaseEdges]_vars
    /\ [][(Stopping /\ cap.pc = "read" /\ cap'.pc # "read")
            => (cap'.pc = "tofile" /\ cap'.iq = <<cap.writes + 1>>)]_vars
    /\ (Stopping /\ cap.pc \in {"read", "tofile", "tofile2", "json", "json2"})
          ~> (cap.pc = "prune" /\ CurrentChunkWritten)
    /\ [][(Stopping /\ cap.pc # "read") => cap'.pc # "read"]_vars
    /\ Stopping ~> (cap.pc = "closed" /\ cap.sdr = "closed")
    /\ [][cap.pc = "closed" => cap' = cap]_vars

\* a signal came during the second iteration or later; its chunk is written
C11_Witness ==
    Stopping /\ cap.pc = "prune" /\ cap.writes >= 1 /\ CurrentChunkWritten

\* the session is over: the device was released after the try statement, or
\* an exception left capture_loop before it
SessionEnded == cap.pc \in {"closed", "raised"}

\* C12: in every session that obtained the device handle, the release is
\* invoked exactly once before the session ends, however it ends.
C12_DeviceRelease ==
    (SessionEnded /\ cap.sdr # "none") => (cap.closes = 1 /\ cap.sdr = "closed")

\* C13: every chunk the capture loop writes carries as its descriptor start
\* time the instant t0 taken before the device read, which to the
\* millisecond is the identity in the names of its two artifacts.
C13_StartTimeIsT0 ==
    /\ cap.pc \in {"tofile", "tofile2", "json", "json2", "prune", "pruning"}
          => StartOf(cap.meta) = cap.t0
    /\ \A s \in DOMAIN jsonFiles :
          jsonFiles[s].readable => ChunkStem(StartOf(jsonFiles[s])) = s

---------------------------------------------------------------------------

\* the descriptors of a directory that do not parse
Unreadable(dir) == {s \in DOMAIN dir : ~dir[s].readable}

\* C14: a chunk whose descriptor is malformed or unreadable is skipped by
\* both consumers: prune_seconds counts no duration for it and does not
\* delete it, extract_slice never selects it, and neither raises because
\* of it.
C14_MalformedSkipped ==
    /\ pr.pc \in {"unlink", "done"} =>
          /\ pr.total = SumDur(gh.beforeJson,
                               KeepSet(pr.kept) \ Unreadable(gh.beforeJson))
          /\ \A s \in Unreadable(gh.beforeJson) :
                /\ s \in DOMAIN jsonFiles
                /\ s \in DOMAIN gh.beforeIq => s \in DOMAIN iqFiles
    /\ SelectionMade => SelectedStems \cap Unreadable(gh.exJson) = {}
    /\ ex.pc = "raised" => ex.missing[1] \notin Unreadable(gh.exJson)

---------------------------------------------------------------------------

\* C15: prune_seconds visits the chunks newest-first by the start time in
\* their descriptors, so after a run no deleted chunk has a later embedded
\* start time than a chunk that was kept.
C15_NewestFirst ==
    /\ pr.pc \in {"unlink", "done"} =>
          \A i, j \in 1..Len(pr.files) :
              i < j => StartOf(gh.beforeJson[pr.files[i]])
                         <= StartOf(gh.beforeJson[pr.files[j]])
    /\ PruneCompleted =>
          \A d \in (DOMAIN gh.beforeJson) \ (DOMAIN jsonFiles) :
              \A k \in DOMAIN jsonFiles :
                  StartOf(gh.beforeJson[d]) <= StartOf(jsonFiles[k])

---------------------------------------------------------------------------

Later(a, b) == IF a > b THEN a ELSE b
Earlier(a, b) == IF a < b THEN a ELSE b

\* the interval of selected chunk i, from its descriptor
ChunkStart(i) == ex.metas[i][1]
ChunkEnd(i) == ex.metas[i][1] + ex.metas[i][2] * MsPerSec

WindowResolved == ex.start_time = WindowStart /\ ex.end_time = WindowEnd

\* C16 as stated: each selected chunk's half-open interval [chunk_start,
\* chunk_start + duration) shares an instant with the half-open window
\* [window_start, window_end).
C16_HalfOpen ==
    SelectionMade =>
        /\ WindowResolved
        /\ \A i \in 1..Len(ex.metas) :
              Later(ChunkStart(i), WindowStart) < Earlier(ChunkEnd(i), WindowEnd)

\* C16 amended: each selected chunk's closed interval [chunk_start,
\* chunk_start + duration] shares an instant with the closed window
\* [window_start, window_end].
C16_ClosedWindow ==
    SelectionMade =>
        /\ WindowResolved
        /\ \A i \in 1..Len(ex.metas) :
              Later(ChunkStart(i), WindowStart) <= Earlier(ChunkEnd(i), WindowEnd)

\* a selected chunk that ends at the very instant the window starts
C16_Witness ==
    /\ ex.pc = "done"
    /\ \E i \in 1..Len(ex.metas) : ChunkEnd(i) = WindowStart

---------------------------------------------------------------------------

\* the chunks of which both artifacts are written
WrittenChunks ==
    {s \in Paired(jsonFiles, iqFiles) : jsonFiles[s].readable /\ iqFiles[s].complete}

\* a step leaves the artifacts of a written chunk as they are, or removes them
NeverOverwritten ==
    \A s \in WrittenChunks :
        /\ s \in DOMAIN iqFiles' => iqFiles'[s] = iqFiles[s]
        /\ s \in DOMAIN jsonFiles' => jsonFiles'[s] = jsonFiles[s]

\* an iteration that follows another takes a later identity
SuccessiveDistinct ==
    (cap.pc = "loop" /\ cap'.pc = "read" /\ cap.writes >= 1)
        => ChunkStem(cap'.t0) # ChunkStem(cap.ts)

\* a completed run split no pair, and left nothing of a chunk it deleted
PairedDeletion ==
    PruneCompleted =>
        /\ \A s \in Paired(gh.beforeJson, gh.beforeIq) :
              (s \in DOMAIN jsonFiles) <=> (s \in DOMAIN iqFiles)
        /\ \A s \in (DOMAIN gh.beforeJson) \ (DOMAIN jsonFiles) :
              s \notin DOMAIN iqFiles

\* C17: a written chunk is never overwritten by a later iteration
\* (successive identities differ); a completed prune_seconds run leaves
\* each chunk with both artifacts or none; an artifact already missing
\* when it is to be deleted does not make the run fail.
C17_ImmutablePairs ==
    [][/\ NeverOverwritten
       /\ SuccessiveDistinct
       /\ PairedDeletion'
       /\ pr'.pc # "raised"]_vars

\* a run of the second or a later iteration that deleted a chunk whose raw
\* data was already missing, and a complete chunk
C17_Witness ==
    /\ PruneCompleted /\ cap.pc = "pruning" /\ cap.writes >= 1
    /\ \E s \in (DOMAIN gh.beforeJson) \ (DOMAIN gh.beforeIq) : s \notin DOMAIN jsonFiles
    /\ \E s \in Paired(gh.beforeJson, gh.beforeIq) : s \notin DOMAIN jsonFiles

---------------------------------------------------------------------------

\* the chunks a run keeps when the result pair is not in the directory
KeptWithoutResult ==
    LET files == sorted((DOMAIN gh.beforeJson) \ {ResultStem})
    IN  KeepSet(Accumulate(gh.beforeJson, files, Len(files), 0, <<>>,
                           pr.buffer_sec).kept)

\* C18: with an extraction result pair in the capture directory, a later
\* prune_seconds deletes neither of its artifacts and deletes the chunks it
\* would delete without the pair; a later extract_slice never selects the
\* pair and never fails because of it.
C18_ResultsAreNotChunks ==
    /\ PruneCompleted =>
          /\ ResultStem \in DOMAIN jsonFiles /\ OutStem \in DOMAIN iqFiles
          /\ (DOMAIN jsonFiles) \ {ResultStem} = KeptWithoutResult
    /\ SelectionMade => ResultStem \notin SelectedStems
    /\ ex.pc = "raised" => ex.missing[1] # ResultStem

---------------------------------------------------------------------------

---------------------------------------------------------------------------

\* k = ceil(R / d)
EvictionAge(R, d) == (R + d - 1) \div d

\* both artifacts of the j-th chunk the session wrote are in the directory
Present(j) ==
    /\ j \in DOMAIN gh.written
    /\ gh.written[j] \in DOMAIN jsonFiles /\ gh.written[j] \in DOMAIN iqFiles

\* neither artifact of the j-th chunk the session wrote is in the directory
Deleted(j) ==
    /\ j \in DOMAIN gh.written
    /\ gh.written[j] \notin DOMAIN jsonFiles /\ gh.written[j] \notin DOMAIN iqFiles

\* after the prune that follows the n-th write, the chunks of the last k
\* writes are present and every earlier one is deleted
EvictionSchedule ==
    (PruneCompleted /\ cap.pc = "pruning" /\ cap.buffer_sec > 0 /\ cap.chunk_sec > 0)
        => LET n == Len(gh.written)
               k == EvictionAge(cap.buffer_sec, cap.chunk_sec)
           IN  \A j \in 1..n : IF n - j < k THEN Present(j) ELSE Deleted(j)

====
